---- MODULE Spec2Model ----
(***************************************************************************)
(* Model of bot/cogs/verification.py: the Verification cog.                *)
(*                                                                         *)
(* The reconciliation task (update_unverified_members) classifies the      *)
(* guild members, gives the @Unverified role, asks for confirmation of     *)
(* the kick batch (_verify_kick), kicks (_kick_members) and reports.       *)
(* Every await of the task is a separate step, so that the environment     *)
(* (the clock, staff reactions) interleaves with it; what bot.get_guild    *)
(* returns is an input of the step that calls it.                          *)
(*                                                                         *)
(* Time is counted in days for join dates and in minutes for the staff     *)
(* prompt.  Failures of the messaging calls of the prompt and of the mod   *)
(* log are not modelled; failures of the per-member requests and a guild   *)
(* missing from the cache are.                                             *)
(*                                                                         *)
(* The reminder task (ping_unverified, with _before_first_ping run once    *)
(* before its first iteration) keeps one notice in the verification        *)
(* channel and the id of that notice in the Redis cache.  Its clock is     *)
(* counted in hours.  The cache and the channel outlive the process; a     *)
(* restart of the process starts both tasks afresh.  cog_unload cancels    *)
(* both tasks.                                                             *)
(***************************************************************************)
EXTENDS Integers, FiniteSets, Sequences, TLC

\* ------------------------------------------------------------------ bounds
NumMembers == 2     \* members of the guild
MaxNow == 1         \* days the clock may advance
ThresholdDen == 1   \* thresholds are k / ThresholdDen, k in 0..ThresholdDen
MaxJumps == 2       \* times the hour clock may advance
MaxSends == 2       \* messages the bot may send to #verification

\* ------------------------------------------------------- program constants
UNVERIFIED_AFTER == 3
KICKED_AFTER == 30
KICK_CONFIRMATION_THRESHOLD == 0
timeout == 5        \* 60 * 5 seconds, counted in minutes
REMINDER_FREQUENCY == 28    \* hours

Members == 1..NumMembers
None == << >>
Statuses == {"403", "500"}      \* http_exc.status of a failed request
options == <<"incident_actioned", "incident_unactioned">>
Emojis == {"incident_actioned", "incident_unactioned", "other"}
Thresholds == {KICK_CONFIRMATION_THRESHOLD} \cup (0..ThresholdDen)
JoinDates == {<<0 - KICKED_AFTER>>, <<0 - UNVERIFIED_AFTER>>, None}
Guilds == {<<"pydis">>, None}  \* what bot.get_guild(constants.Guild.id) returns
RoleSets == {{"default"} \cup r : r \in SUBSET {"unverified", "verified"}}

VARIABLES
    member,         \* member id -> [present, bot, joined_at, roles]
    now,            \* datetime.utcnow(), in days
    threshold,      \* numerator of the configured KICK_CONFIRMATION_THRESHOLD
    loop,           \* tasks.Loop of update_unverified_members: "running" | "failed"
    pc,             \* position of update_unverified_members
    snapshot,       \* << >>, or <<pydis.members as read by _check_members>>
    current_dt,     \* _check_members: current_dt
    for_role,       \* _check_members / update_unverified_members: for_role
    for_kick,       \* _check_members / update_unverified_members: for_kick
    todo,           \* _give_role / _kick_members: members not yet iterated
    n_done,         \* _give_role: n_success, _kick_members: n_kicked
    bad_statuses,   \* _give_role / _kick_members: bad_statuses
    tries,          \* kind -> member -> requests issued in this cycle
    outcome,        \* kind -> member -> "none" | "ok" | status of the request
    returned,       \* kind -> << >> | <<count, bad_statuses>> the pass returned
    gate,           \* _verify_kick: [n, total, ret, decision]
    prompt,         \* confirmation_msg: [posted, reactions, cleared, content]
    waited,         \* minutes spent in the pending bot.wait_for (0 when none)
    choice,         \* _verify_kick: choice ("none" while unanswered)
    ignored,        \* the pending wait_for has rejected a reaction_add event
    role_report,    \* update_unverified_members: role_report
    kick_report,    \* update_unverified_members: kick_report
    reports,        \* mod log messages sent by the current cycle
    snapshot_failed, \* the guild was missing when the members were read
    cycle,          \* "none" | "running" | "ended": the current invocation
    event,          \* << >>, or <<the reaction_add that wait_for returned>>
    prev,           \* << >>, or <<what the cycle that reported today left undone>>
    rloop,          \* tasks.Loop of ping_unverified: "running" | "failed" | "cancelled"
    rpc,            \* position of ping_unverified / _before_first_ping
    reminder_cache, \* reminder_cache["last_reminder"]: None or <<message id>>
    last_reminder,  \* local last_reminder of the running coroutine
    new_reminder,   \* local new_reminder: None or <<message id>>
    channel,        \* ids of the reminder notices present in #verification
    hour,           \* datetime.utcnow(), in hours
    jumps,          \* how many times the hour clock has advanced
    wake,           \* hour at which the pending asyncio.sleep returns
    sends,          \* messages the bot has sent to #verification so far
    activation,     \* << >>, or <<what _before_first_ping read and computed>>
    delete_res,     \* "none" | "ok" | status: the delete_message of this iteration
    unloaded,       \* cog_unload has run
    accepting       \* members whose accept_command is between its two requests

vars == <<member, now, threshold, loop, pc, snapshot, current_dt,
          for_role, for_kick, todo, n_done, bad_statuses, tries, outcome,
          returned, gate, prompt, waited, choice, ignored, role_report,
          kick_report, reports, snapshot_failed, cycle, event, prev,
          rloop, rpc, reminder_cache, last_reminder, new_reminder, channel,
          hour, jumps, wake, sends, activation, delete_res, unloaded,
          accepting>>

envVars == <<now, threshold>>
checkVars == <<snapshot, current_dt, for_role, for_kick>>
execVars == <<todo, n_done, bad_statuses, tries, outcome, returned>>
gateVars == <<gate, prompt, waited, choice, ignored, event>>
reportVars == <<role_report, kick_report, reports>>
ghostVars == <<snapshot_failed, cycle, prev>>
reminderVars == <<rloop, rpc, reminder_cache, last_reminder, new_reminder,
                  channel, hour, jumps, wake, sends, activation, delete_res>>
cogVars == <<unloaded, accepting>>
otherVars == <<reminderVars, cogVars>>

Kinds == {"role", "kick"}
NoGate == [n |-> 0, total |-> 0, ret |-> "none", decision |-> "none"]
NoPrompt == [posted |-> FALSE, reactions |-> {}, cleared |-> FALSE, content |-> "none"]
NoTries == [k \in Kinds |-> [m \in Members |-> 0]]
NoOutcome == [k \in Kinds |-> [m \in Members |-> "none"]]
NoReturn == [k \in Kinds |-> << >>]

\* pydis.members
GuildMembers == {m \in Members : member[m].present}

\* --------------------------------------------------------- _check_members
unverified_roles == {"unverified", "default"}

\* (mutant) bots are not passed over
Skipped_UnknownJoinOnly(mem) == mem.joined_at = None

\* if member.bot or member.joined_at is None: continue
Skipped(mem) == mem.bot \/ mem.joined_at = None

\* (mutant) the operands of the set difference swapped
HasVerified_Swapped(roles) == unverified_roles \ roles # {}

\* if set(member.roles) - unverified_roles: continue
HasVerified(roles) == roles \ unverified_roles # {}

\* (mutant) >= in place of >
Exceeds_NonStrict(since_join, days) == since_join >= days

\* since_join > timedelta(days=...)
Exceeds(since_join, days) == since_join > days

since_join(mem, dt) == dt - mem.joined_at[1]

ShouldKick(mem, dt) ==
    /\ ~Skipped(mem)
    /\ ~HasVerified(mem.roles)
    /\ Exceeds(since_join(mem, dt), KICKED_AFTER)

\* (mutant) the second branch written as an independent if
Elif_AsIf(first, second) == second

\* if ...: for_kick.add(member) elif ...: for_role.add(member)
Elif(first, second) == ~first /\ second

\* (mutant) the role is given without looking at the roles held
ShouldGetRole_AgainAndAgain(mem, dt) ==
    /\ ~Skipped(mem)
    /\ ~HasVerified(mem.roles)
    /\ Elif(Exceeds(since_join(mem, dt), KICKED_AFTER),
            Exceeds(since_join(mem, dt), UNVERIFIED_AFTER))

ShouldGetRole(mem, dt) ==
    /\ ~Skipped(mem)
    /\ ~HasVerified(mem.roles)
    /\ Elif(Exceeds(since_join(mem, dt), KICKED_AFTER),
            /\ Exceeds(since_join(mem, dt), UNVERIFIED_AFTER)
            /\ "unverified" \notin mem.roles)

\* ------------------------------------------------------------------- Init
\* __init__ starts ping_unverified.  stored is what Redis holds when the
\* process starts: nothing, or the id of the notice an earlier process left
\* in the channel.
InitReminder(stored) ==
    /\ rloop = "running"
    /\ rpc = "before"
    /\ reminder_cache = stored
    /\ last_reminder = None
    /\ new_reminder = None
    /\ channel = (IF stored = None THEN {} ELSE {stored[1]})
    /\ hour = 0
    /\ jumps = 0
    /\ wake = 0
    /\ sends = (IF stored = None THEN 0 ELSE 1)
    /\ activation = << >>
    /\ delete_res = "none"

MemberStates ==
    [present : {TRUE}, bot : BOOLEAN, joined_at : JoinDates, roles : RoleSets]

\* Members are interchangeable (they are only ever quantified over), so each
\* multiset of member states is listed once: in the order of this key.
Key(mem) ==
    (IF mem.bot THEN 1000 ELSE 0)
    + (IF mem.joined_at = None THEN 0 ELSE 10 * (0 - mem.joined_at[1]))
    + (IF "unverified" \in mem.roles THEN 1 ELSE 0)
    + (IF "verified" \in mem.roles THEN 2 ELSE 0)

InitRecon ==
    /\ member \in [Members -> MemberStates]
    /\ \A m \in Members : m + 1 \in Members => Key(member[m]) <= Key(member[m + 1])
    /\ now = 0
    /\ threshold \in Thresholds
    /\ loop = "running"
    /\ pc = "idle"
    /\ snapshot = << >>
    /\ current_dt = 0
    /\ for_role = {}
    /\ for_kick = {}
    /\ todo = {}
    /\ n_done = 0
    /\ bad_statuses = {}
    /\ tries = NoTries
    /\ outcome = NoOutcome
    /\ returned = NoReturn
    /\ gate = NoGate
    /\ prompt = NoPrompt
    /\ waited = 0
    /\ choice = "none"
    /\ ignored = FALSE
    /\ role_report = <<"unset">>
    /\ kick_report = <<"unset">>
    /\ reports = << >>
    /\ snapshot_failed = FALSE
    /\ cycle = "none"
    /\ event = << >>
    /\ prev = << >>
    /\ unloaded = FALSE
    /\ accepting = {}

\* a fresh deployment: the cache is empty
Init == InitRecon /\ InitReminder(None)

\* ------------------------------------------------------------ environment
TimePasses ==
    /\ now < MaxNow
    /\ now' = now + 1
    /\ prev' = << >>
    /\ UNCHANGED <<member, threshold, loop, pc, checkVars, execVars,
                   gateVars, reportVars, snapshot_failed, cycle, otherVars>>

\* ------------------------------------------- update_unverified_members
\* tasks.Loop calls the coroutine again after the period has passed.
StartCycle ==
    /\ loop = "running"
    /\ pc = "idle"
    /\ pc' = "start"
    /\ snapshot' = << >>
    /\ current_dt' = 0
    /\ for_role' = {}
    /\ for_kick' = {}
    /\ todo' = {}
    /\ n_done' = 0
    /\ bad_statuses' = {}
    /\ tries' = NoTries
    /\ outcome' = NoOutcome
    /\ returned' = NoReturn
    /\ gate' = NoGate
    /\ prompt' = NoPrompt
    /\ waited' = 0
    /\ choice' = "none"
    /\ ignored' = FALSE
    /\ role_report' = <<"unset">>
    /\ kick_report' = <<"unset">>
    /\ reports' = << >>
    /\ snapshot_failed' = FALSE
    /\ cycle' = "running"
    /\ event' = << >>
    /\ UNCHANGED <<member, now, threshold, loop, prev, otherVars>>

\* An exception that is none of tasks.Loop's reconnect exceptions leaves the
\* coroutine: the loop logs it and ends.
Crash ==
    /\ loop' = "failed"
    /\ pc' = "dead"
    /\ cycle' = "ended"

\* (mutant) the negation dropped
NotAuthorized_NegationDropped(ret) == ret = "True"

\* elif not await self._verify_kick(len(for_kick))
NotAuthorized(ret) == ret # "True"

\* _kick_members is entered: its locals are initialised.
EnterKick ==
    /\ pc' = "kick"
    /\ todo' = for_kick
    /\ n_done' = 0
    /\ bad_statuses' = {}

\* (mutant) the gate is called whatever the batch
KickBranch_AlwaysGate(fk) == pc' = "gate" /\ UNCHANGED kick_report

\* The branch on for_kick, up to the await it reaches.
KickBranch(fk) ==
    IF fk = {}
    THEN /\ kick_report' = <<"none_found">>
         /\ pc' = "report"
    ELSE /\ pc' = "gate"
         /\ UNCHANGED kick_report

\* await self.bot.wait_until_guild_available(); get_guild(...).get_role(...)
\* The wait returns once the guild has been seen available; the guild may
\* have left the cache since (get_guild returns None).
GetUnverifiedRole ==
    /\ pc = "start"
    /\ \E guild \in Guilds :
          IF guild = None
          THEN Crash /\ snapshot_failed' = TRUE
          ELSE pc' = "check" /\ UNCHANGED <<loop, snapshot_failed, cycle>>
    /\ UNCHANGED <<envVars, member, checkVars, execVars, gateVars, reportVars,
                   prev, otherVars>>

\* _check_members, and the branch on for_role up to the next await
CheckMembers ==
    /\ pc = "check"
    /\ \E guild \in Guilds :
          IF guild = None
          THEN /\ Crash
               /\ snapshot_failed' = TRUE
               /\ UNCHANGED <<checkVars, todo, n_done, bad_statuses, reportVars>>
          ELSE /\ snapshot' = <<[m \in GuildMembers |-> member[m]]>>
               /\ current_dt' = now
               /\ for_role' = {m \in GuildMembers : ShouldGetRole(member[m], now)}
               /\ for_kick' = {m \in GuildMembers : ShouldKick(member[m], now)}
               /\ IF for_role' = {}
                  THEN /\ role_report' = <<"none_found">>
                       /\ KickBranch(for_kick')
                       /\ UNCHANGED <<todo, n_done, bad_statuses>>
                  ELSE /\ pc' = "give_role"
                       /\ todo' = for_role'
                       /\ n_done' = 0
                       /\ bad_statuses' = {}
                       /\ UNCHANGED <<role_report, kick_report>>
               /\ UNCHANGED <<loop, snapshot_failed, cycle, reports>>
    /\ UNCHANGED <<envVars, member, tries, outcome, returned, gateVars, prev,
                   otherVars>>

\* ------------------------------------------- _give_role / _kick_members
\* else: n_success += 1
Succeeded(n, res) == IF res = "ok" THEN n + 1 ELSE n

\* except discord.HTTPException as http_exc: bad_statuses.add(http_exc.status)
Recorded(bad, res) == IF res = "ok" THEN bad ELSE bad \cup {res}

\* (mutant) a failed request ends the iteration
Remaining_AbortOnFailure(td, m, res) == IF res = "ok" THEN td \ {m} ELSE {}

\* for member in members: the members still to be visited
Remaining(td, m, res) == td \ {m}

Logged(kind, m, res) ==
    /\ tries' = [tries EXCEPT ![kind][m] = @ + 1]
    /\ outcome' = [outcome EXCEPT ![kind][m] = res]

\* (mutant) the role is not added
Added_Nothing(roles) == roles

\* what a successful add_roles(role) makes of member.roles
Added(roles) == roles \cup {"unverified"}

\* await member.add_roles(role, ...) for one member of the batch
GiveRole(m, res) ==
    /\ pc = "give_role"
    /\ m \in todo
    /\ member' = IF res = "ok"
                 THEN [member EXCEPT ![m].roles = Added(@)]
                 ELSE member
    /\ Logged("role", m, res)
    /\ LET n == Succeeded(n_done, res)
           bad == Recorded(bad_statuses, res)
           rest == Remaining(todo, m, res)
       IN /\ todo' = rest
          /\ n_done' = n
          /\ bad_statuses' = bad
          /\ IF rest # {}
             THEN UNCHANGED <<pc, returned, role_report, kick_report>>
             ELSE /\ returned' = [returned EXCEPT !["role"] = <<n, bad>>]
                  /\ role_report' = <<"assigned", n, Cardinality(for_role)>>
                  /\ KickBranch(for_kick)
    /\ UNCHANGED <<envVars, loop, checkVars, gateVars, reports, ghostVars,
                   otherVars>>

GiveRoleOk == \E m \in Members : GiveRole(m, "ok")

GiveRoleFail == \E m \in Members, s \in Statuses : GiveRole(m, s)

\* await member.kick(...) for one member of the batch
Kick(m, res) ==
    /\ pc = "kick"
    /\ m \in todo
    /\ member' = IF res = "ok"
                 THEN [member EXCEPT ![m].present = FALSE]
                 ELSE member
    /\ Logged("kick", m, res)
    /\ LET n == Succeeded(n_done, res)
           bad == Recorded(bad_statuses, res)
           rest == Remaining(todo, m, res)
       IN /\ todo' = rest
          /\ n_done' = n
          /\ bad_statuses' = bad
          /\ IF rest # {}
             THEN UNCHANGED <<pc, returned, kick_report>>
             ELSE /\ returned' = [returned EXCEPT !["kick"] = <<n, bad>>]
                  /\ kick_report' = <<"kicked", n, Cardinality(for_kick)>>
                  /\ pc' = "report"
    /\ UNCHANGED <<envVars, loop, checkVars, gateVars, role_report, reports,
                   ghostVars, otherVars>>

KickOk == \E m \in Members : Kick(m, "ok")

KickFail == \E m \in Members, s \in Statuses : Kick(m, s)

\* ------------------------------------------------------------ _verify_kick
\* (mutant) <= in place of <
SeenAsSafe_NonStrict(n_members, total, thr) ==
    n_members * ThresholdDen <= thr * total

\* percentage = n_members / len(pydis.members)
\* if percentage < KICK_CONFIRMATION_THRESHOLD
SeenAsSafe(n_members, total, thr) == n_members * ThresholdDen < thr * total

\* the call of _verify_kick up to its first send, or its early return
VerifyKick ==
    /\ pc = "gate"
    /\ \E guild \in Guilds :
          LET n == Cardinality(for_kick)
              total == Cardinality(GuildMembers)
          IN IF guild = None \/ total = 0
             THEN /\ Crash
                  /\ UNCHANGED <<gate, todo, n_done, bad_statuses>>
             ELSE IF SeenAsSafe(n, total, threshold)
             THEN /\ gate' = [n |-> n, total |-> total, ret |-> "True",
                              decision |-> "AutoApproved"]
                  /\ EnterKick
                  /\ UNCHANGED <<loop, cycle>>
             ELSE /\ gate' = [n |-> n, total |-> total, ret |-> "none",
                              decision |-> "none"]
                  /\ pc' = "post"
                  /\ UNCHANGED <<loop, cycle, todo, n_done, bad_statuses>>
    /\ UNCHANGED <<envVars, member, checkVars, tries, outcome, returned, prompt,
                   waited, choice, ignored, event, reportVars, snapshot_failed,
                   prev, otherVars>>

\* confirmation_msg = await core_devs.send(...)
PostPrompt ==
    /\ pc = "post"
    /\ prompt' = [posted |-> TRUE, reactions |-> {}, cleared |-> FALSE,
                  content |-> "proceed"]
    /\ pc' = "seed"
    /\ UNCHANGED <<envVars, member, loop, checkVars, execVars, gate, waited,
                   choice, ignored, event, reportVars, ghostVars, otherVars>>

\* for option in options: await confirmation_msg.add_reaction(option)
AddReaction ==
    /\ pc = "seed"
    /\ LET i == Cardinality(prompt.reactions) + 1
       IN /\ prompt' = [prompt EXCEPT !.reactions = @ \cup {options[i]}]
          /\ pc' = IF i = Len(options) THEN "wait" ELSE "seed"
    /\ UNCHANGED <<envVars, member, loop, checkVars, execVars, gate, waited,
                   choice, ignored, event, reportVars, ghostVars, otherVars>>

\* (mutant) the reactions of bots are accepted
check_AnyUser(reaction) ==
    /\ reaction.message = "confirmation_msg"
    /\ \E i \in 1..Len(options) : options[i] = reaction.emoji

\* def check(reaction, user)
check(reaction) ==
    /\ reaction.message = "confirmation_msg"
    /\ \E i \in 1..Len(options) : options[i] = reaction.emoji
    /\ ~reaction.bot

Reactions == [message : {"confirmation_msg", "other"}, emoji : Emojis, bot : BOOLEAN]

\* (mutant) the timer fires one minute late
Expired_Late(w) == w > timeout

\* wait_for's timer has run out
Expired(w) == w >= timeout

\* a minute passes while wait_for is pending
WaitTick ==
    /\ pc = "wait"
    /\ ~Expired(waited)
    /\ waited' = waited + 1
    /\ UNCHANGED <<envVars, member, loop, pc, checkVars, execVars, gate, prompt,
                   choice, ignored, event, reportVars, ghostVars, otherVars>>

\* a reaction_add event is dispatched while wait_for is pending
ReactionAdd ==
    /\ pc = "wait"
    /\ \E r \in Reactions :
          IF check(r)
          THEN /\ choice' = r.emoji
               /\ event' = <<r>>
               /\ pc' = "clear"
               /\ waited' = 0
               /\ ignored' = FALSE
          ELSE /\ ignored' = TRUE
               /\ UNCHANGED <<choice, event, pc, waited>>
    /\ UNCHANGED <<envVars, member, loop, checkVars, execVars, gate, prompt,
                   reportVars, ghostVars, otherVars>>

\* except asyncio.TimeoutError
WaitTimeout ==
    /\ pc = "wait"
    /\ Expired(waited)
    /\ pc' = "clear"
    /\ waited' = 0
    /\ ignored' = FALSE
    /\ UNCHANGED <<envVars, member, loop, checkVars, execVars, gate, prompt,
                   choice, event, reportVars, ghostVars, otherVars>>

\* the outcome of the except clause: return False
TimedOutReturn == "False"

\* (mutant) the reactions are left in place
Cleared_Skipped(msg) == msg

\* finally: await confirmation_msg.clear_reactions()
Cleared(msg) == [msg EXCEPT !.reactions = {}, !.cleared = TRUE]

ClearReactions ==
    /\ pc = "clear"
    /\ prompt' = Cleared(prompt)
    /\ IF choice = "none"
       THEN /\ gate' = [gate EXCEPT !.ret = TimedOutReturn, !.decision = "TimedOut"]
            /\ IF NotAuthorized(gate'.ret)
               THEN /\ kick_report' = <<"not_authorized", Cardinality(for_kick)>>
                    /\ pc' = "report"
                    /\ UNCHANGED <<todo, n_done, bad_statuses>>
               ELSE /\ EnterKick
                    /\ UNCHANGED kick_report
       ELSE /\ pc' = "edit"
            /\ UNCHANGED <<gate, kick_report, todo, n_done, bad_statuses>>
    /\ UNCHANGED <<envVars, member, loop, checkVars, tries, outcome, returned,
                   waited, choice, ignored, event, role_report, reports,
                   ghostVars, otherVars>>

\* result = str(choice) == constants.Emojis.incident_actioned
Result(ch) == ch = "incident_actioned"

\* await confirmation_msg.edit(content=...)
Edited(msg, result) ==
    [msg EXCEPT !.content = IF result THEN "authorized" ELSE "denied"]

EditPrompt ==
    /\ pc = "edit"
    /\ prompt' = Edited(prompt, Result(choice))
    /\ gate' = [gate EXCEPT
                  !.ret = IF Result(choice) THEN "True" ELSE "False",
                  !.decision = IF Result(choice) THEN "HumanApproved"
                               ELSE "HumanDenied"]
    /\ IF NotAuthorized(gate'.ret)
       THEN /\ kick_report' = <<"not_authorized", Cardinality(for_kick)>>
            /\ pc' = "report"
            /\ UNCHANGED <<todo, n_done, bad_statuses>>
       ELSE /\ EnterKick
            /\ UNCHANGED kick_report
    /\ UNCHANGED <<envVars, member, loop, checkVars, tries, outcome, returned,
                   waited, choice, ignored, event, role_report, reports,
                   ghostVars, otherVars>>

\* The members of a batch on which the request of this cycle did not succeed
\* (it failed, or the batch was not acted on).
Left(kind) ==
    {m \in (IF kind = "role" THEN for_role ELSE for_kick) : outcome[kind][m] # "ok"}

\* The members on which a request of this cycle succeeded.
Acted == {m \in Members : \E kind \in Kinds : outcome[kind][m] = "ok"}

\* await self.mod_log.send_log_message(...), then the loop sleeps.
\* remembered: the history variable prev records what the cycle left undone
\* (only the specification that compares successive cycles keeps it).
Report(remembered) ==
    /\ pc = "report"
    /\ reports' = Append(reports, <<kick_report, role_report>>)
    /\ pc' = "idle"
    /\ cycle' = "ended"
    /\ prev' = IF remembered
               THEN <<[dt |-> current_dt, role_left |-> Left("role"),
                       kick_left |-> Left("kick"), acted |-> Acted]>>
               ELSE prev
    /\ UNCHANGED <<envVars, member, loop, checkVars, execVars, gateVars,
                   role_report, kick_report, snapshot_failed, otherVars>>

SendLog == Report(FALSE)

SendLogRemembered == Report(TRUE)

\* ---------------------------------------------------------- reminder task
\* A message id is a snowflake: the creation time in its high bits, a
\* per-message increment in its low bits.
IdScale == MaxSends + 1
Snowflake(t, k) == t * IdScale + k

\* discord.utils.snowflake_time(id)
snowflake_time(id) == id \div IdScale

\* the hour clock advances by an hour, or by an hour less than the period
Jumps == {1, REMINDER_FREQUENCY - 1}

HourPasses ==
    /\ jumps < MaxJumps
    /\ \E d \in Jumps : hour' = hour + d
    /\ jumps' = jumps + 1
    /\ UNCHANGED <<member, envVars, loop, pc, checkVars, execVars, gateVars,
                   reportVars, ghostVars, rloop, rpc, reminder_cache,
                   last_reminder, new_reminder, channel, wake, sends,
                   activation, delete_res, cogVars>>

reconVars == <<member, envVars, loop, pc, checkVars, execVars, gateVars,
               reportVars, ghostVars>>

\* (mutant) reading the key removes it
AfterGet_Popped(cache) == None

\* what await self.reminder_cache.get("last_reminder") leaves in the cache
AfterGet(cache) == cache

\* (mutant) the delay is not clamped at zero
Secs_Unclamped(to_sleep) == to_sleep

\* secs = max(to_sleep.total_seconds(), 0)
Secs(to_sleep) == IF to_sleep > 0 THEN to_sleep ELSE 0

\* time_since = utcnow() - snowflake_time(last_reminder)
\* to_sleep = timedelta(hours=REMINDER_FREQUENCY) - time_since
ToSleep(last, utcnow) == REMINDER_FREQUENCY - (utcnow - snowflake_time(last))

\* _before_first_ping, up to its return or its asyncio.sleep(secs)
BeforeFirstPing ==
    /\ rpc = "before"
    /\ last_reminder' = reminder_cache
    /\ IF reminder_cache = None
       THEN /\ activation' = <<[stored |-> None, at |-> hour, secs |-> 0]>>
            /\ rpc' = "ping"
            /\ UNCHANGED wake
       ELSE LET secs == Secs(ToSleep(reminder_cache[1], hour))
            IN /\ activation' = <<[stored |-> reminder_cache, at |-> hour,
                                   secs |-> secs]>>
               /\ wake' = hour + secs
               /\ rpc' = "delay"
    /\ reminder_cache' = AfterGet(reminder_cache)
    /\ UNCHANGED <<reconVars, rloop, new_reminder, channel, hour, jumps, sends,
                   delete_res, cogVars>>

\* asyncio.sleep returns no earlier than asked: the one of _before_first_ping
\* ("delay"), or the one of tasks.Loop between two iterations ("sleep")
WakeUp ==
    /\ rpc \in {"delay", "sleep"}
    /\ hour >= wake
    /\ rpc' = "ping"
    /\ UNCHANGED <<reconVars, rloop, reminder_cache, last_reminder,
                   new_reminder, channel, hour, jumps, wake, sends, activation,
                   delete_res, cogVars>>

\* An exception leaves ping_unverified.  tasks.Loop either runs the coroutine
\* again after a backoff (the exception is one of its reconnect exceptions)
\* or logs it and ends; which one depends on the discord.py release for
\* discord.HTTPException, so both are possible for it.
LoopOutcomes == {"retry", "ended"}

Raised(how) ==
    IF how = "retry"
    THEN rpc' = "ping" /\ UNCHANGED rloop
    ELSE rpc' = "dead" /\ rloop' = "failed"

\* await self.bot.wait_until_guild_available()
\* verification = self.bot.get_guild(...).get_channel(...)
\* last_reminder = await self.reminder_cache.get("last_reminder")
Ping ==
    /\ rpc = "ping"
    /\ \E guild \in Guilds :
          IF guild = None
          THEN /\ Raised("ended")
               /\ UNCHANGED <<reminder_cache, last_reminder, new_reminder,
                              delete_res>>
          ELSE /\ last_reminder' = reminder_cache
               /\ reminder_cache' = AfterGet(reminder_cache)
               /\ new_reminder' = None
               /\ delete_res' = "none"
               /\ rpc' = IF reminder_cache = None THEN "send" ELSE "delete"
               /\ UNCHANGED rloop
    /\ UNCHANGED <<reconVars, channel, hour, jumps, wake, sends, activation,
                   cogVars>>

\* (mutant) the failure of the deletion is not suppressed
Suppressed_Nothing(res) == res = "ok"

\* with suppress(discord.HTTPException)
Suppressed(res) == TRUE

\* await self.bot.http.delete_message(verification.id, last_reminder)
Delete(res) ==
    /\ rpc = "delete"
    /\ res = "ok" => last_reminder[1] \in channel
    /\ channel' = IF res = "ok" THEN channel \ {last_reminder[1]} ELSE channel
    /\ delete_res' = res
    /\ IF Suppressed(res)
       THEN rpc' = "send" /\ UNCHANGED rloop
       ELSE \E how \in LoopOutcomes : Raised(how)
    /\ UNCHANGED <<reconVars, reminder_cache, last_reminder, new_reminder, hour,
                   jumps, wake, sends, activation, cogVars>>

DeleteOk == Delete("ok")

\* 404: the notice is no longer there
DeleteFail == \E s \in Statuses \cup {"404"} : Delete(s)

\* new_reminder = await verification.send(REMINDER_MESSAGE)
SendOk ==
    /\ rpc = "send"
    /\ sends < MaxSends
    /\ LET id == Snowflake(hour, sends)
       IN /\ channel' = channel \cup {id}
          /\ new_reminder' = <<id>>
    /\ sends' = sends + 1
    /\ rpc' = "set"
    /\ UNCHANGED <<reconVars, rloop, reminder_cache, last_reminder, hour, jumps,
                   wake, activation, delete_res, cogVars>>

SendFail ==
    /\ rpc = "send"
    /\ \E how \in LoopOutcomes : Raised(how)
    /\ UNCHANGED <<reconVars, reminder_cache, last_reminder, new_reminder,
                   channel, hour, jumps, wake, sends, activation, delete_res,
                   cogVars>>

\* (mutant) the id read at the start of the iteration is stored
SetValue_Stale(last, new) == last

\* the value of: self.reminder_cache.set("last_reminder", new_reminder.id)
SetValue(last, new) == new

\* await self.reminder_cache.set(...), then tasks.Loop sleeps for the period
SetCache ==
    /\ rpc = "set"
    /\ reminder_cache' = SetValue(last_reminder, new_reminder)
    /\ rpc' = "sleep"
    /\ wake' = hour + REMINDER_FREQUENCY
    /\ UNCHANGED <<reconVars, rloop, last_reminder, new_reminder, channel, hour,
                   jumps, sends, activation, delete_res, cogVars>>

\* The process restarts: the cog is constructed again and __init__ starts
\* both tasks.  The guild, the Redis cache, the channel and the clocks
\* outlive the process; the state of the coroutines does not.
Restart ==
    /\ loop' = "running"
    /\ pc' = "idle"
    /\ snapshot' = << >>
    /\ current_dt' = 0
    /\ for_role' = {}
    /\ for_kick' = {}
    /\ todo' = {}
    /\ n_done' = 0
    /\ bad_statuses' = {}
    /\ tries' = NoTries
    /\ outcome' = NoOutcome
    /\ returned' = NoReturn
    /\ gate' = NoGate
    /\ prompt' = NoPrompt
    /\ waited' = 0
    /\ choice' = "none"
    /\ ignored' = FALSE
    /\ event' = << >>
    /\ role_report' = <<"unset">>
    /\ kick_report' = <<"unset">>
    /\ reports' = << >>
    /\ snapshot_failed' = FALSE
    /\ cycle' = "none"
    /\ prev' = << >>
    /\ rloop' = "running"
    /\ rpc' = "before"
    /\ last_reminder' = None
    /\ new_reminder' = None
    /\ wake' = 0
    /\ activation' = << >>
    /\ delete_res' = "none"
    /\ unloaded' = FALSE
    /\ accepting' = {}
    /\ UNCHANGED <<member, envVars, reminder_cache, channel, hour, jumps, sends>>

\* The guild of the specifications that are about the tasks rather than about
\* the classification: every member joined KICKED_AFTER days ago and holds
\* no role, so that a cycle warns them today and removes them tomorrow.
Lapsed ==
    [m \in Members |-> [present |-> TRUE, bot |-> FALSE,
                        joined_at |-> <<0 - KICKED_AFTER>>, roles |-> {"default"}]]

\* -------------------------------------------------------- ReminderSpec
ReminderInit ==
    /\ Init
    /\ member = Lapsed
    /\ threshold = KICK_CONFIRMATION_THRESHOLD

ReminderNext ==
    \/ HourPasses
    \/ BeforeFirstPing
    \/ WakeUp
    \/ Ping
    \/ DeleteOk
    \/ DeleteFail
    \/ SendOk
    \/ SendFail
    \/ SetCache
    \/ Restart

ReminderSpec == ReminderInit /\ [][ReminderNext]_vars

\* ------------------------------------------------------------------- Next
Next ==
    \/ TimePasses
    \/ StartCycle
    \/ GetUnverifiedRole
    \/ CheckMembers
    \/ GiveRoleOk
    \/ GiveRoleFail
    \/ VerifyKick
    \/ PostPrompt
    \/ AddReaction
    \/ WaitTick
    \/ ReactionAdd
    \/ WaitTimeout
    \/ ClearReactions
    \/ EditPrompt
    \/ KickOk
    \/ KickFail
    \/ SendLog

Spec == Init /\ [][Next]_vars

\* The event loop resumes _verify_kick when the call it awaits has answered,
\* and runs wait_for's timer: a posted prompt is not starved.
GateStep ==
    \/ AddReaction
    \/ WaitTick
    \/ WaitTimeout
    \/ ClearReactions
    \/ EditPrompt

FairSpec == Spec /\ WF_vars(GateStep)

\* ---------------------------------------------------------- cog_unload
\* tasks.Loop.cancel(): the task of a running loop is cancelled
Cancel(l) == IF l = "running" THEN "cancelled" ELSE l

\* (mutant) only update_unverified_members is cancelled
Unloaded_FirstOnly(loops) == <<Cancel(loops[1]), loops[2]>>

\* self.update_unverified_members.cancel(); self.ping_unverified.cancel()
Unloaded(loops) == <<Cancel(loops[1]), Cancel(loops[2])>>

\* CancelledError is raised at the await each cancelled task is suspended
\* at, and ends it; raised inside wait_for of _verify_kick it first runs the
\* finally clause.  The frames of a cancelled coroutine are gone: what the
\* model keeps of them is reset.  The prompt is a message, it stays.
CogUnload ==
    /\ ~unloaded
    /\ unloaded' = TRUE
    /\ LET loops == Unloaded(<<loop, rloop>>)
       IN /\ loop' = loops[1]
          /\ rloop' = loops[2]
          /\ pc' = IF loops[1] = loop THEN pc
                   ELSE IF pc = "wait" THEN "unwind" ELSE "dead"
          /\ cycle' = IF loops[1] # loop /\ cycle = "running" /\ pc # "wait"
                      THEN "ended" ELSE cycle
          /\ rpc' = IF loops[2] = rloop THEN rpc ELSE "dead"
    /\ waited' = 0
    /\ ignored' = FALSE
    /\ IF loop' = loop
       THEN UNCHANGED <<checkVars, execVars, gate, choice, event, reportVars,
                        snapshot_failed, prev>>
       ELSE /\ snapshot' = << >>
            /\ current_dt' = 0
            /\ for_role' = {}
            /\ for_kick' = {}
            /\ todo' = {}
            /\ n_done' = 0
            /\ bad_statuses' = {}
            /\ tries' = NoTries
            /\ outcome' = NoOutcome
            /\ returned' = NoReturn
            /\ gate' = NoGate
            /\ choice' = "none"
            /\ event' = << >>
            /\ role_report' = <<"unset">>
            /\ kick_report' = <<"unset">>
            /\ reports' = << >>
            /\ snapshot_failed' = FALSE
            /\ prev' = << >>
    /\ IF rloop' = rloop
       THEN UNCHANGED <<last_reminder, new_reminder, wake, activation,
                        delete_res>>
       ELSE /\ last_reminder' = None
            /\ new_reminder' = None
            /\ wake' = 0
            /\ activation' = << >>
            /\ delete_res' = "none"
    /\ UNCHANGED <<member, envVars, prompt, reminder_cache, channel, hour,
                   jumps, sends, accepting>>

\* finally: await confirmation_msg.clear_reactions(), on the way out of a
\* cancelled wait_for
ClearOnCancel ==
    /\ pc = "unwind"
    /\ prompt' = Cleared(prompt)
    /\ pc' = "dead"
    /\ cycle' = "ended"
    /\ UNCHANGED <<member, envVars, loop, checkVars, execVars, gate, waited,
                   choice, ignored, event, reportVars, snapshot_failed, prev,
                   otherVars>>

\* ----------------------------------------------------------- SystemSpec
\* Both tasks of one process and cog_unload.  The process finds the cache
\* empty, or holding the id of a notice that an earlier process sent a period
\* ago.  The hour clock stands still here: the reminder task runs its first
\* iteration and then sleeps (its later iterations are in ReminderSpec).
SystemInit ==
    /\ InitRecon
    /\ member = Lapsed
    /\ threshold = KICK_CONFIRMATION_THRESHOLD
    /\ \E stored \in {None, <<Snowflake(0 - REMINDER_FREQUENCY, 0)>>} :
          InitReminder(stored)

SystemNext ==
    \/ Next
    \/ BeforeFirstPing
    \/ WakeUp
    \/ Ping
    \/ DeleteOk
    \/ DeleteFail
    \/ SendOk
    \/ SendFail
    \/ SetCache
    \/ CogUnload
    \/ ClearOnCancel

SystemSpec == SystemInit /\ [][SystemNext]_vars

\* ------------------------------------------------------- accept_command
\* @without_role(constants.Roles.verified); bots do not invoke commands
MayAccept(m) ==
    /\ member[m].present
    /\ ~member[m].bot
    /\ "verified" \notin member[m].roles
    /\ m \notin accepting

\* await ctx.author.add_roles(discord.Object(constants.Roles.verified), ...)
\* and the test of ctx.author.roles that follows it.  A failed request ends
\* the command with nothing changed.
AcceptAddRole ==
    /\ \E m \in Members :
          /\ MayAccept(m)
          /\ member' = [member EXCEPT ![m].roles = @ \cup {"verified"}]
          /\ accepting' = IF "unverified" \in member[m].roles
                          THEN accepting \cup {m}
                          ELSE accepting
    /\ UNCHANGED <<envVars, loop, pc, checkVars, execVars, gateVars, reportVars,
                   ghostVars, reminderVars, unloaded>>

\* await ctx.author.remove_roles(discord.Object(constants.Roles.unverified))
\* It fails when the member has left the guild meanwhile, or with some status.
AcceptRemoveRole ==
    /\ \E m \in accepting, ok \in BOOLEAN :
          /\ ok => member[m].present
          /\ member' = IF ok
                       THEN [member EXCEPT ![m].roles = @ \ {"unverified"}]
                       ELSE member
          /\ accepting' = accepting \ {m}
    /\ UNCHANGED <<envVars, loop, pc, checkVars, execVars, gateVars, reportVars,
                   ghostVars, reminderVars, unloaded>>

\* ----------------------------------------------------------- AcceptSpec
\* The reconciliation task, and members who run !accept at any moment.
AcceptInit ==
    /\ Init
    /\ member = Lapsed
    /\ threshold = KICK_CONFIRMATION_THRESHOLD

AcceptNext ==
    \/ Next
    \/ AcceptAddRole
    \/ AcceptRemoveRole

AcceptSpec == AcceptInit /\ [][AcceptNext]_vars

\* ------------------------------------------------------------ RerunSpec
\* The reconciliation task, with the history of the cycle before.
RerunNext ==
    \/ TimePasses
    \/ StartCycle
    \/ GetUnverifiedRole
    \/ CheckMembers
    \/ GiveRoleOk
    \/ GiveRoleFail
    \/ VerifyKick
    \/ PostPrompt
    \/ AddReaction
    \/ WaitTick
    \/ ReactionAdd
    \/ WaitTimeout
    \/ ClearReactions
    \/ EditPrompt
    \/ KickOk
    \/ KickFail
    \/ SendLogRemembered

RerunSpec == Init /\ [][RerunNext]_vars

\* ================================================================ claims
Snap == snapshot[1]
Classified == snapshot # << >>
Elapsed(m) == current_dt - Snap[m].joined_at[1]
KickAttempted == \E m \in Members : tries["kick"][m] > 0
Batch(kind) == IF kind = "role" THEN for_role ELSE for_kick

\* C1: members are kicked only after _verify_kick returned True (auto-approval
\* or a human 'approve'); when the gate ends by 'deny' or by timeout nobody is
\* kicked in that cycle and the kick summary is the 'Not authorized' line.
C1_KickOnlyWhenAuthorized ==
    /\ (pc = "kick" \/ KickAttempted) =>
          /\ gate.ret = "True"
          /\ gate.decision \in {"AutoApproved", "HumanApproved"}
    /\ gate.decision = "HumanApproved" => choice = "incident_actioned"
    /\ gate.decision \in {"HumanDenied", "TimedOut"} =>
          /\ gate.ret = "False"
          /\ ~KickAttempted
          /\ \A m \in for_kick : member[m].present
          /\ kick_report = <<"not_authorized", Cardinality(for_kick)>>
          /\ pc \in {"report", "idle"}
          /\ \A i \in 1..Len(reports) : reports[i][1] = kick_report

C1_Witness ==
    /\ gate.decision = "HumanApproved"
    /\ KickAttempted
    /\ pc = "idle"

C1_WitnessDenied ==
    /\ gate.decision = "HumanDenied"
    /\ pc = "idle"
    /\ Len(reports) = 1

\* C2: the two sets returned by _check_members share no member.
C2_Disjoint == for_role \cap for_kick = {}

C2_Witness ==
    /\ Classified
    /\ for_role # {}
    /\ for_kick # {}

\* C3: a member holding a role other than the default role and the unverified
\* role is in neither set, whatever the time since joining.
C3_VerifiedNeverClassified ==
    Classified =>
        \A m \in DOMAIN Snap :
            (\E r \in Snap[m].roles : r \notin {"default", "unverified"})
                => m \notin for_role \cup for_kick

C3_Witness ==
    /\ Classified
    /\ \E m \in DOMAIN Snap :
          /\ "verified" \in Snap[m].roles
          /\ ~Snap[m].bot
          /\ Snap[m].joined_at # None
          /\ Elapsed(m) > KICKED_AFTER
          /\ m \notin for_role \cup for_kick

\* C4: both thresholds are strict: at exactly UNVERIFIED_AFTER days an
\* unverified member is in neither set; at exactly KICKED_AFTER days it is not
\* in for_kick and is in for_role iff it does not hold the unverified role;
\* only more than KICKED_AFTER days puts a member in for_kick.
Unverified(m) ==
    /\ ~Snap[m].bot
    /\ Snap[m].joined_at # None
    /\ Snap[m].roles \subseteq {"default", "unverified"}

C4_StrictThresholds ==
    Classified =>
        \A m \in DOMAIN Snap :
            /\ m \in for_kick => Unverified(m) /\ Elapsed(m) > KICKED_AFTER
            /\ Unverified(m) =>
                  /\ Elapsed(m) = UNVERIFIED_AFTER => m \notin for_role \cup for_kick
                  /\ Elapsed(m) = KICKED_AFTER =>
                        /\ m \notin for_kick
                        /\ m \in for_role <=> "unverified" \notin Snap[m].roles
                  /\ Elapsed(m) > KICKED_AFTER => m \in for_kick

C4_Witness ==
    /\ Classified
    /\ \E m \in DOMAIN Snap :
          Unverified(m) /\ Elapsed(m) = KICKED_AFTER /\ m \in for_role
    /\ \E m \in DOMAIN Snap :
          Unverified(m) /\ Elapsed(m) = UNVERIFIED_AFTER /\ m \notin for_role

\* C5: the gate approves without a prompt and without waiting iff
\* n_members / len(members) < threshold (strict); otherwise it posts a prompt
\* and waits.  With threshold 0 the gate never approves without a qualifying
\* human 'approve'.
GateEntered == gate.n > 0
BelowThreshold == gate.n * ThresholdDen < threshold * gate.total

C5_WitnessAtThreshold ==
    /\ GateEntered
    /\ threshold > 0
    /\ gate.n * ThresholdDen = threshold * gate.total
    /\ prompt.posted

\* C6: a posted prompt that gets no qualifying reaction ends not authorized
\* when the timeout has elapsed; the wait never lasts longer than the
\* timeout, and every gate that posted a prompt returns a decision.
C6_TimeoutBoundsTheWait ==
    /\ [](waited <= timeout)
    /\ [][(pc = "wait" /\ pc' # "wait" /\ choice' = "none") => waited = timeout]_vars
    /\ []((prompt.posted /\ gate.ret # "none" /\ choice = "none") =>
            (gate.ret = "False" /\ gate.decision = "TimedOut"))
    /\ [](gate.decision = "TimedOut" => choice = "none" /\ ~KickAttempted)
    /\ (prompt.posted ~> gate.ret # "none")

C6_Witness ==
    /\ gate.decision = "TimedOut"
    /\ gate.ret = "False"
    /\ prompt.posted
    /\ pc = "idle"

C6_WitnessIgnoredReaction ==
    /\ pc = "wait"
    /\ ignored
    /\ waited = timeout

\* C7 (as claimed): on every outcome of a gate that posted a prompt, approval,
\* denial and timeout alike, the reactions are cleared and the prompt is
\* edited to reflect the outcome before the gate returns.
C7_EditedOnEveryOutcome ==
    (prompt.posted /\ gate.ret # "none") =>
        /\ prompt.cleared
        /\ prompt.reactions = {}
        /\ prompt.content \in {"authorized", "denied", "timed_out"}

\* C7 (amended): on every outcome of a gate that posted a prompt the reactions
\* are cleared before the gate returns; the prompt is edited to 'authorized'
\* on approval and to 'denied' on denial, and is left as posted on timeout.
C7_ClearedAlwaysEditedOnChoice ==
    (prompt.posted /\ gate.ret # "none") =>
        /\ prompt.cleared
        /\ prompt.reactions = {}
        /\ gate.decision = "HumanApproved" => prompt.content = "authorized"
        /\ gate.decision = "HumanDenied" => prompt.content = "denied"
        /\ gate.decision = "TimedOut" => prompt.content = "proceed"
        /\ gate.decision \in {"HumanApproved", "HumanDenied", "TimedOut"}

C7_Witness ==
    /\ prompt.posted
    /\ gate.decision = "TimedOut"
    /\ prompt.cleared
    /\ prompt.content = "proceed"

\* C8: _give_role and _kick_members attempt the action on every member of the
\* batch exactly once, whatever fails; the count returned is the number of
\* members whose request did not fail and the recorded statuses are exactly
\* the distinct statuses that occurred.
Failed(kind) == {m \in Members : outcome[kind][m] \notin {"none", "ok"}}

C8_BatchNeverAborts ==
    \A kind \in Kinds :
        /\ \A m \in Members : tries[kind][m] <= 1
        /\ \A m \in Members : tries[kind][m] > 0 => m \in Batch(kind)
        /\ returned[kind] # << >> =>
              /\ \A m \in Batch(kind) : tries[kind][m] = 1
              /\ returned[kind][1] =
                    Cardinality({m \in Batch(kind) : outcome[kind][m] = "ok"})
              /\ returned[kind][2] = {outcome[kind][m] : m \in Failed(kind)}

C8_Witness ==
    \E kind \in Kinds :
        /\ Cardinality(Batch(kind)) = 2
        /\ returned[kind] # << >>
        /\ returned[kind][1] = 1
        /\ Cardinality(returned[kind][2]) = 1

C8_WitnessSameStatus ==
    /\ Cardinality(for_role) = 2
    /\ returned["role"] = <<0, {"403"}>>

\* C9 (as claimed): every reconciliation cycle that starts emits exactly one
\* combined report before it ends.
C9_OneReportPerCycle ==
    /\ Len(reports) <= 1
    /\ cycle = "ended" => Len(reports) = 1

\* What the code does guarantee: a cycle that runs to its end sends exactly
\* one report, made of its two summaries.
C9_ReportWhenNotAborted ==
    /\ Len(reports) <= 1
    /\ (cycle = "ended" /\ loop = "running") =>
          reports = <<(<<kick_report, role_report>>)>>
    /\ (cycle = "ended" /\ loop = "running") =>
          kick_report # <<"unset">> /\ role_report # <<"unset">>

\* C10 (as claimed): when the member snapshot cannot be obtained the cycle
\* ends without giving a role, kicking or posting a prompt, and the periodic
\* task stays alive.
C10_AbortKeepsTaskAlive ==
    snapshot_failed =>
        /\ tries = NoTries
        /\ ~prompt.posted
        /\ loop = "running"

\* What the code does guarantee: nothing was changed by that cycle.
C10_AbortChangesNothing ==
    snapshot_failed =>
        /\ tries = NoTries
        /\ ~prompt.posted
        /\ reports = << >>
        /\ cycle = "ended"

\* ------------------------------------------------------- reminder claims
CreatedAt(id) == id \div IdScale
Activated == activation # << >>
Act == activation[1]
StoredAge == Act.at - CreatedAt(Act.stored[1])
DeleteFailed == delete_res \notin {"none", "ok"}

\* C11: the delay _before_first_ping sleeps before the first reminder is 0
\* when no reminder id is stored, and otherwise the period minus the age of
\* the stored reminder, never below 0: an hour when the stored reminder is
\* an hour short of the period old, 0 when it is a period old or older.  So
\* the first reminder after a restart is not sent before a period has passed
\* since the stored reminder was created.
C11_InitialDelay ==
    /\ [](Activated =>
            /\ Act.stored = None => Act.secs = 0 /\ rpc # "delay"
            /\ Act.stored # None =>
                 /\ StoredAge < REMINDER_FREQUENCY
                       => Act.secs = REMINDER_FREQUENCY - StoredAge
                 /\ StoredAge = REMINDER_FREQUENCY - 1 => Act.secs = 1
                 /\ StoredAge >= REMINDER_FREQUENCY => Act.secs = 0
                 /\ rpc = "delay" => wake = Act.at + Act.secs)
    /\ [][rpc = "delay" /\ rpc' = "ping"
            => hour >= CreatedAt(Act.stored[1]) + REMINDER_FREQUENCY]_vars

\* the stored reminder was an hour short of the period old at the restart;
\* the task slept the hour and is about to send
C11_Witness ==
    /\ Activated
    /\ Act.stored # None
    /\ StoredAge = REMINDER_FREQUENCY - 1
    /\ Act.secs = 1
    /\ rpc = "ping"
    /\ hour = Act.at + 1

\* the stored reminder was older than the period at the restart
C11_WitnessOverdue ==
    /\ Activated
    /\ Act.stored # None
    /\ StoredAge > REMINDER_FREQUENCY
    /\ Act.secs = 0
    /\ rpc = "ping"

\* C12: in every iteration of ping_unverified the stored 'last_reminder' is
\* written only after the new notice has been sent, and with the id of that
\* notice; until then (and so when the send fails or the process restarts
\* before it) the stored id is the one the iteration found.
C12_StoredAfterSend ==
    /\ [](rpc \in {"delete", "send", "set"} => reminder_cache = last_reminder)
    /\ [][reminder_cache' # reminder_cache
            => /\ rpc = "set"
               /\ new_reminder # None
               /\ new_reminder[1] \in channel
               /\ reminder_cache' = new_reminder]_vars
    /\ [][rpc = "set" /\ rpc' = "sleep" => reminder_cache' = new_reminder]_vars

\* a second notice has been sent and stored
C12_Witness ==
    /\ rpc = "sleep"
    /\ last_reminder # None
    /\ new_reminder # None
    /\ reminder_cache = new_reminder
    /\ new_reminder # last_reminder

\* the send failed after the deletion had been attempted: the loop has ended
\* and the stored id is still the old one
C12_WitnessSendFailed ==
    /\ rloop = "failed"
    /\ delete_res # "none"
    /\ new_reminder = None
    /\ reminder_cache = last_reminder

\* C13: when the deletion of the previous notice fails, the iteration goes
\* on: the new notice is sent and the stored id is overwritten with its id.
C13_DeleteFailureTolerated ==
    /\ [][rpc = "delete" /\ delete_res' \notin {"none", "ok"}
            => rpc' = "send" /\ rloop' = "running"]_vars
    /\ [](DeleteFailed /\ rpc = "set" =>
            new_reminder # None /\ new_reminder[1] \in channel)
    /\ [](DeleteFailed /\ rpc = "sleep" =>
            reminder_cache = new_reminder /\ reminder_cache # last_reminder)

\* the deletion failed, the old notice is still there, the new one is stored
C13_Witness ==
    /\ DeleteFailed
    /\ rpc = "sleep"
    /\ last_reminder[1] \in channel
    /\ reminder_cache = new_reminder
    /\ new_reminder[1] \in channel
    /\ new_reminder # last_reminder

\* --------------------------------------------------- claims, continued
\* a cycle is under way, and its snapshot was read at the instant the
\* previous cycle (which has reported) read its own
SecondRun ==
    /\ cycle = "running"
    /\ Classified
    /\ prev # << >>
    /\ prev[1].dt = current_dt

\* C14 as stated: a cycle run again at once, on a guild that differs only by
\* what the first run did, finds nobody to warn and nobody to remove.
C14_SecondRunEmpty == SecondRun => for_role = {} /\ for_kick = {}

\* C14, amended: a cycle run again at once, on a guild that differs only by
\* what the first run did, selects for the role exactly the members whose
\* role assignment failed in the first run, and for the kick exactly the
\* members of the first kick batch that were not kicked (the request failed,
\* or the gate did not authorize the batch); both batches are empty when
\* every action of the first run succeeded.
C14_SecondRunRetriesWhatWasLeft ==
    SecondRun => for_role = prev[1].role_left /\ for_kick = prev[1].kick_left

\* the first run acted on somebody and left nothing: the second finds nobody
C14_Witness ==
    /\ SecondRun
    /\ prev[1].acted # {}
    /\ prev[1].role_left = {}
    /\ prev[1].kick_left = {}
    /\ for_role = {}
    /\ for_kick = {}

\* the first run's kick batch was not removed: the second selects it again
C14_WitnessLeftOver ==
    /\ SecondRun
    /\ prev[1].kick_left # {}
    /\ for_kick = prev[1].kick_left

\* the gate has been called, or something the gate or the kick pass does has
\* happened, in this cycle
GateOrKickTouched ==
    \/ pc \in {"gate", "post", "seed", "wait", "clear", "edit", "kick"}
    \/ gate # NoGate
    \/ prompt.posted
    \/ choice # "none"
    \/ KickAttempted
    \/ returned["kick"] # << >>

\* C15: _verify_kick is called only with a non-empty kick batch; when the
\* batch is empty no prompt is posted, nothing is waited for and no kick is
\* attempted: the cycle reports that nobody was found.
C15_GateOnlyForNonEmptyBatch ==
    /\ GateOrKickTouched => for_kick # {}
    /\ Classified /\ for_kick = {} /\ pc \in {"report", "idle"}
          => kick_report = <<"none_found">>

\* a cycle with an empty kick batch went from the role pass to the report
C15_Witness ==
    /\ Classified
    /\ for_role # {}
    /\ for_kick = {}
    /\ pc = "report"
    /\ kick_report = <<"none_found">>
    /\ ~prompt.posted

\* C16: a member who already holds the unverified role is never put in the
\* role batch; so no cycle asks for the role again for a member that an
\* earlier cycle gave it to and that is still seen holding it.
C16_NoReassignment ==
    /\ Classified => \A m \in DOMAIN Snap :
                       "unverified" \in Snap[m].roles => m \notin for_role
    /\ \A m \in Members :
          tries["role"][m] > 0 => "unverified" \notin Snap[m].roles
    /\ SecondRun => \A m \in prev[1].acted : tries["role"][m] = 0

\* a later cycle classifies a member that the previous one gave the role to
C16_Witness ==
    /\ SecondRun
    /\ \E m \in prev[1].acted :
          /\ m \in DOMAIN Snap
          /\ Snap[m].roles = {"default", "unverified"}
          /\ Elapsed(m) > UNVERIFIED_AFTER
          /\ Elapsed(m) <= KICKED_AFTER
          /\ m \notin for_role

\* C17: a bot account, and a member whose join time is unknown, is in neither
\* batch, whatever roles it holds and however long ago it joined.
C17_BotsAndUnknownJoinSkipped ==
    Classified => \A m \in DOMAIN Snap :
        Snap[m].bot \/ Snap[m].joined_at = << >>
            => m \notin for_role /\ m \notin for_kick

\* a bot that joined long ago and holds no role, next to a member who is
\* selected
C17_Witness ==
    /\ Classified
    /\ \E m \in DOMAIN Snap :
          /\ Snap[m].bot
          /\ Snap[m].joined_at # << >>
          /\ Elapsed(m) > KICKED_AFTER
          /\ Snap[m].roles = {"default"}
          /\ m \notin for_role \cup for_kick
    /\ for_kick # {}

\* a member without join time and without role is passed over
C17_WitnessUnknownJoin ==
    /\ Classified
    /\ \E m \in DOMAIN Snap :
          /\ ~Snap[m].bot
          /\ Snap[m].joined_at = << >>
          /\ Snap[m].roles = {"default"}
    /\ for_role # {}

\* C18: once cog_unload has run, both loops are cancelled (not just one of
\* them) and neither task starts another cycle, wherever each task was when
\* it was cancelled.
C18_NoCycleAfterUnload ==
    /\ [](unloaded => /\ loop # "running"
                       /\ rloop # "running"
                       /\ pc \in {"dead", "unwind"}
                       /\ rpc = "dead")
    /\ [][unloaded => /\ pc # "start" => pc' # "start"
                      /\ rpc # "ping" => rpc' # "ping"
                      /\ cycle # "running" => cycle' # "running"
                      /\ channel' = channel
                      /\ member' = member]_vars

\* both tasks were cancelled in mid-cycle: the reconciliation task inside
\* wait_for (its prompt is left cleared and unedited), the reminder task
\* between its send and its cache write
C18_Witness ==
    /\ unloaded
    /\ loop = "cancelled"
    /\ rloop = "cancelled"
    /\ pc = "dead"
    /\ rpc = "dead"
    /\ prompt.posted /\ prompt.cleared /\ prompt.content = "proceed"
    /\ channel # {}
    /\ reminder_cache = None

\* C19: the stored 'last_reminder' is written by the cache write of
\* ping_unverified and by nothing else: no step of the reconciliation cycle,
\* of the gate, of the role and kick passes, of _before_first_ping or of
\* cog_unload changes it.
C19_OnlyPingWritesTheCache ==
    [][/\ reminder_cache' # reminder_cache
            => rpc = "set" /\ rpc' = "sleep" /\ pc' = pc /\ member' = member
       /\ (pc' # pc \/ member' # member \/ gate' # gate \/ reports' # reports
            \/ activation' # activation \/ unloaded' # unloaded)
            => reminder_cache' = reminder_cache]_vars

\* _before_first_ping found a stored id and slept, ping_unverified has since
\* replaced it; meanwhile a cycle was authorized by staff and kicked
C19_Witness ==
    /\ Activated
    /\ Act.stored # None
    /\ reminder_cache # None
    /\ reminder_cache # Act.stored
    /\ gate.decision = "HumanApproved"
    /\ KickAttempted

\* a reaction that passes the three tests of check
Qualifies(r) ==
    /\ r.message = "confirmation_msg"
    /\ r.emoji \in {"incident_actioned", "incident_unactioned"}
    /\ ~r.bot

\* C20: while the gate waits, a reaction added by a bot (the bot's own two
\* seeded reactions included), on another message, or with another emoji
\* neither ends the wait nor affects the decision; the first reaction that
\* passes all three tests ends the wait and decides: approved when it is
\* the 'approve' emoji, denied when it is the 'deny' emoji.
C20_OnlyQualifyingReactionDecides ==
    /\ [](choice # "none" =>
            event # << >> /\ Qualifies(event[1]) /\ choice = event[1].emoji)
    /\ [](gate.decision = "HumanApproved" => choice = "incident_actioned")
    /\ [](gate.decision = "HumanDenied" => choice = "incident_unactioned")
    /\ [](choice # "none" /\ pc \in {"kick", "report", "idle"}
            => gate.decision \in {"HumanApproved", "HumanDenied"})
    /\ [][pc = "wait" /\ pc' = "wait"
            => choice' = "none" /\ event' = event /\ gate' = gate
               /\ prompt' = prompt]_vars
    /\ [][pc = "wait" /\ ignored' /\ ~ignored
            => pc' = "wait" /\ waited' = waited]_vars

\* a staff member's 'deny' on the prompt ended the wait and decided
C20_Witness ==
    /\ gate.decision = "HumanDenied"
    /\ event # << >>
    /\ event[1] = [message |-> "confirmation_msg",
                   emoji |-> "incident_unactioned", bot |-> FALSE]

\* a rejected reaction left the wait pending until its last minute
C20_WitnessRejected ==
    /\ pc = "wait"
    /\ ignored
    /\ waited = timeout
    /\ choice = "none"
    /\ gate.decision = "none"

\* the members a cycle has removed from the guild
Kicked == {m \in Members : ~member[m].present}

\* C21: whatever way a cycle interleaves with accept_command, no member who
\* holds the verified role when the kick is issued is kicked; a member of
\* for_kick who runs !accept while the gate waits is not kicked when the
\* batch is then approved.  (A kicked member cannot run a command, so the
\* roles of a kicked member are those held when the kick was issued.)
C21_VerifiedNeverKicked ==
    \A m \in Kicked : "verified" \notin member[m].roles

\* What does hold: every member a kick is issued for was without the
\* verified role when the snapshot of that cycle was taken.
C21_KickedWereUnverifiedInSnapshot ==
    \A m \in Members :
        tries["kick"][m] > 0 => /\ m \in DOMAIN Snap
                                /\ Snap[m].roles \subseteq {"default", "unverified"}

\* a member accepted while the gate was waiting, staff approved, and the
\* member was kicked
C21_WitnessKickedAfterAccept ==
    /\ gate.decision = "HumanApproved"
    /\ \E m \in for_kick :
          /\ outcome["kick"][m] = "ok"
          /\ "verified" \in member[m].roles
          /\ "verified" \notin Snap[m].roles

\* the reminder task is between two iterations, or about to run its first
AtCycleBoundary == rpc \in {"before", "delay", "sleep"}

\* C22: after any sequence of reminder iterations, restarts, failed deletions
\* and failed sends, at a cycle boundary at most one notice of the task is in
\* the verification channel, and a stored 'last_reminder' id is the id of a
\* notice that is in the channel.
C22_OneNoticeAndStoredExists ==
    AtCycleBoundary =>
        /\ Cardinality(channel) <= 1
        /\ reminder_cache # None => reminder_cache[1] \in channel

\* What does hold: after an iteration that ran to its end the stored id is
\* the id of the notice that iteration sent, and that notice is in the
\* channel.
C22_StoredIsTheNewNotice ==
    rpc = "sleep" => /\ reminder_cache # None
                     /\ reminder_cache = new_reminder
                     /\ reminder_cache[1] \in channel

\* the deletion failed and the iteration ran to its end: two notices
C22_WitnessTwoNotices ==
    /\ rpc = "sleep"
    /\ DeleteFailed
    /\ Cardinality(channel) = 2

\* the old notice was deleted, the send failed, the process restarted: the
\* stored id is the id of a notice that is gone
C22_WitnessStoredGone ==
    /\ rpc = "before"
    /\ reminder_cache # None
    /\ reminder_cache[1] \notin channel

====
